---- MODULE Spec2Model ----
(***************************************************************************)
(* Model of the Tansea availability API (src/index.js, lines 1-511):       *)
(* the Sat-Sat week resolver, the free-text query interpreter and the      *)
(* POST /check handler.                                                    *)
(*                                                                         *)
(* Time.  A JavaScript Date is an instant, counted here in ticks since the *)
(* epoch, TicksPerDay ticks to the day.  An ISO date string "YYYY-MM-DD"   *)
(* is a day number (days since 1970-01-01).  The process runs in UTC, so   *)
(* local and UTC calendar fields agree.                                    *)
(***************************************************************************)
EXTENDS Integers, Sequences, FiniteSets, TLC

VARIABLES
    prices,          \* the price table loaded at startup (index.js:20)
    now,             \* the system clock read by new Date()
    call,            \* the last call of a resolver / interpreter function and its result
    pc,              \* per request: where the /check handler stands
    userText,        \* per request: query || date (index.js:340)
    interpretation,  \* per request: interpretQuery(userText) (index.js:348)
    bookings,        \* per request: the list loadBookings() returned (index.js:357)
    response         \* per request: the response sent, if any

vars == <<prices, now, call, pc, userText, interpretation, bookings, response>>

(***************************************************************************)
(* Bounds of the model.                                                    *)
(***************************************************************************)
TicksPerDay == 2
MaxBookings == 1
MaxBands == 2

(***************************************************************************)
(* Optional values: null / undefined is the empty sequence.                *)
(***************************************************************************)
Null == <<>>
Some(x) == <<x>>

(***************************************************************************)
(* The calendar (JavaScript Date in UTC).                                  *)
(***************************************************************************)
\* Day number of the civil date y-m-d (m in 1..12), proleptic Gregorian.
DaysFromCivil(y, m, d) ==
    LET yy  == IF m <= 2 THEN y - 1 ELSE y
        era == yy \div 400
        yoe == yy - era * 400
        mp  == IF m > 2 THEN m - 3 ELSE m + 9
        doy == (153 * mp + 2) \div 5 + d - 1
        doe == yoe * 365 + yoe \div 4 - yoe \div 100 + doy
    IN  era * 146097 + doe - 719468

\* The civil date of a day number: [year, month (0..11, as getMonth), date].
CivilFromDays(z) ==
    LET zz  == z + 719468
        era == zz \div 146097
        doe == zz - era * 146097
        yoe == (doe - doe \div 1460 + doe \div 36524 - doe \div 146096) \div 365
        doy == doe - (365 * yoe + yoe \div 4 - yoe \div 100)
        mp  == (5 * doy + 2) \div 153
        d   == doy - (153 * mp + 2) \div 5 + 1
        m   == IF mp < 10 THEN mp + 3 ELSE mp - 9
        y   == yoe + era * 400 + (IF m <= 2 THEN 1 ELSE 0)
    IN  [year |-> y, month |-> m - 1, date |-> d]

\* new Date("YYYY-MM-DD"): midnight of that day.
NewDate(dateStr) == dateStr * TicksPerDay

\* new Date(year, monthIndex, day): midnight; a month index of 12 rolls into the next year.
NewDateYMD(year, monthIndex, day) ==
    NewDate(DaysFromCivil(year + monthIndex \div 12, (monthIndex % 12) + 1, day))

\* Date.prototype.getDay: 0 = Sunday .. 6 = Saturday (1970-01-01 was a Thursday).
getDay(t) == ((t \div TicksPerDay) + 4) % 7

\* Date.prototype.getFullYear / getMonth.
getFullYear(t) == CivilFromDays(t \div TicksPerDay).year
getMonth(t) == CivilFromDays(t \div TicksPerDay).month

\* d.setDate(d.getDate() + n): n days later, same time of day.
addDays(t, n) == t + n * TicksPerDay

Saturday == 6

(***************************************************************************)
(* Helper functions (index.js:26-68).                                      *)
(***************************************************************************)
toTime(d) == NewDate(d)

\* toISOString().slice(0, 10): the day an instant falls in, its time of day dropped.
iso(t) == t \div TicksPerDay

\* Mutant: a date equal to a band's end is taken to be in the band.
RECURSIVE priceScan_closedEnd(_, _)
priceScan_closedEnd(t, i) ==
    IF i > Len(prices) THEN Null
    ELSE IF t >= toTime(prices[i].start) /\ t <= toTime(prices[i].end)
         THEN Some(prices[i].price)
         ELSE priceScan_closedEnd(t, i + 1)

RECURSIVE priceScan(_, _)
priceScan(t, i) ==
    IF i > Len(prices) THEN Null
    ELSE IF t >= toTime(prices[i].start) /\ t < toTime(prices[i].end)
         THEN Some(prices[i].price)
         ELSE priceScan(t, i + 1)

getPriceForDate(dateStr) == priceScan(toTime(dateStr), 1)

\* Mutant: the distance walked back is the weekday itself, which lands on a Sunday.
snapToSaturday_toSunday(dateStr) ==
    LET d    == NewDate(dateStr)
        day  == getDay(d)
        diff == day
    IN  iso(addDays(d, 0 - diff))

\* Mutant: the date moves forward to the Saturday at or after it.
snapToSaturday_forward(dateStr) ==
    LET d    == NewDate(dateStr)
        day  == getDay(d)
        diff == Saturday - day
    IN  iso(addDays(d, diff))

snapToSaturday(dateStr) ==
    LET d    == NewDate(dateStr)
        day  == getDay(d)
        diff == (day + 1) % 7
    IN  iso(addDays(d, 0 - diff))

(***************************************************************************)
(* Occupancy (index.js:87-119).  A booking is [start, end), two instants.  *)
(***************************************************************************)
\* Mutant: the end instant of a booking counts as booked.
isBookedDate_closedEnd(t, bks) ==
    \E i \in 1..Len(bks) : t >= bks[i].start /\ t <= bks[i].end

isBookedDate(t, bks) ==
    \E i \in 1..Len(bks) : t >= bks[i].start /\ t < bks[i].end

\* Mutant: the walk also probes the end day.
RECURSIVE bookedScan_inclusive(_, _, _)
bookedScan_inclusive(cur, end, bks) ==
    IF ~(cur <= end) THEN FALSE
    ELSE IF isBookedDate(cur, bks) THEN TRUE
         ELSE bookedScan_inclusive(addDays(cur, 1), end, bks)

RECURSIVE bookedScan(_, _, _)
bookedScan(cur, end, bks) ==
    IF ~(cur < end) THEN FALSE
    ELSE IF isBookedDate(cur, bks) THEN TRUE
         ELSE bookedScan(addDays(cur, 1), end, bks)

isBookedRange(startStr, endStr, bks) ==
    bookedScan(NewDate(startStr), NewDate(endStr), bks)

\* Mutant: only the Saturday itself is probed.
getWeekInfo_firstDayOnly(satStr, bks) ==
    LET start == NewDate(satStr)
        end   == addDays(NewDate(satStr), 7)
    IN  [start  |-> iso(start),
         end    |-> iso(end),
         booked |-> isBookedDate(start, bks),
         price  |-> getPriceForDate(iso(start))]

getWeekInfo(satStr, bks) ==
    LET start == NewDate(satStr)
        end   == addDays(NewDate(satStr), 7)
    IN  [start  |-> iso(start),
         end    |-> iso(end),
         booked |-> isBookedRange(iso(start), iso(end), bks),
         price  |-> getPriceForDate(iso(start))]

(***************************************************************************)
(* The two searches (index.js:122-153).                                    *)
(***************************************************************************)
DefaultLookahead == 8

\* Mutant: the search accepts an unbooked week whatever its price.
RECURSIVE nextScan_ignorePrice(_, _, _, _)
nextScan_ignorePrice(d, i, bks, maxWeeksLookahead) ==
    IF ~(i < maxWeeksLookahead) THEN Null
    ELSE LET info == getWeekInfo(iso(d), bks)
         IN  IF ~info.booked THEN Some(info)
             ELSE nextScan_ignorePrice(addDays(d, 7), i + 1, bks, maxWeeksLookahead)

RECURSIVE nextScan(_, _, _, _)
nextScan(d, i, bks, maxWeeksLookahead) ==
    IF ~(i < maxWeeksLookahead) THEN Null
    ELSE LET info == getWeekInfo(iso(d), bks)
         IN  IF ~info.booked /\ info.price # Null THEN Some(info)
             ELSE nextScan(addDays(d, 7), i + 1, bks, maxWeeksLookahead)

\* Mutant: the search starts one week after the snapped Saturday.
findNextAvailableWeek_skipFirst(dateStr, bks, maxWeeksLookahead) ==
    nextScan(addDays(NewDate(snapToSaturday(dateStr)), 7), 0, bks, maxWeeksLookahead)

\* Mutant: the search walks from the date itself, not from its Saturday.
findNextAvailableWeek_noSnap(dateStr, bks, maxWeeksLookahead) ==
    nextScan(NewDate(dateStr), 0, bks, maxWeeksLookahead)

findNextAvailableWeek(dateStr, bks, maxWeeksLookahead) ==
    nextScan(NewDate(snapToSaturday(dateStr)), 0, bks, maxWeeksLookahead)

\* Mutant: the walk collects priced weeks whether booked or not.
RECURSIVE betweenScan_ignoreBooked(_, _, _, _)
betweenScan_ignoreBooked(d, end, bks, weeks) ==
    IF ~(d < end) THEN weeks
    ELSE LET info == getWeekInfo(iso(d), bks)
         IN  betweenScan_ignoreBooked(addDays(d, 7), end, bks,
                         IF info.price # Null
                         THEN Append(weeks, info) ELSE weeks)

\* Mutant: the walk also takes the week that starts on the end date.
RECURSIVE betweenScan_inclusive(_, _, _, _)
betweenScan_inclusive(d, end, bks, weeks) ==
    IF ~(d <= end) THEN weeks
    ELSE LET info == getWeekInfo(iso(d), bks)
         IN  betweenScan_inclusive(addDays(d, 7), end, bks,
                         IF ~info.booked /\ info.price # Null
                         THEN Append(weeks, info) ELSE weeks)

RECURSIVE betweenScan(_, _, _, _)
betweenScan(d, end, bks, weeks) ==
    IF ~(d < end) THEN weeks
    ELSE LET info == getWeekInfo(iso(d), bks)
         IN  betweenScan(addDays(d, 7), end, bks,
                         IF ~info.booked /\ info.price # Null
                         THEN Append(weeks, info) ELSE weeks)

\* Mutant: the walk starts on the range start itself, not on its Saturday.
findAvailableWeeksBetween_noSnap(startStr, endStr, bks) ==
    betweenScan(NewDate(startStr), NewDate(endStr), bks, <<>>)

findAvailableWeeksBetween(startStr, endStr, bks) ==
    betweenScan(NewDate(snapToSaturday(iso(NewDate(startStr)))),
                NewDate(endStr), bks, <<>>)

(***************************************************************************)
(* Query interpretation (index.js:165-326).                                *)
(*                                                                         *)
(* A query is a JSON value.  Of a string the model keeps what the code     *)
(* reads of it: the outcome of each regular expression it is tested with   *)
(* and the first result of chrono.parse (none, a start, a start and an     *)
(* end).                                                                   *)
(*   type        "absent" (undefined), "empty" (""), "other" (a truthy     *)
(*               value that is no string), "text" (a non-empty string)     *)
(*   season      the word matched at line 180, or "none"                   *)
(*   year        the 4-digit year matched at line 187, or Null             *)
(*   next        /\bnext\b/ (line 194)                                     *)
(*   weekend     /\bweekend\b/ (line 240)                                  *)
(*   weekendOf   /\bweekend of\b|\bweekend around\b|\bweekend starting\b/  *)
(*   nextWeekend /\bnext weekend\b/, thisWeekend /\bthis weekend\b/        *)
(*   monthOnly   mentionsMonthOnly (line 286), week  mentionsWeek (290)    *)
(*   chrono      results[0] of chrono.parse: Null or [start, end]          *)
(***************************************************************************)
Falsy(v) == v.type \in {"absent", "empty"}

Invalid == [kind |-> "invalid"]

\* Lines 180-235: a season word was matched.
seasonBranch(query) ==
    LET r      == query.chrono
        season == query.season
        year   == IF query.year # Null THEN query.year[1]
                  ELSE IF r # Null THEN getFullYear(r[1].start)
                  ELSE getFullYear(now) + (IF query.next THEN 1 ELSE 0)
        window == CASE season = "spring" -> <<NewDateYMD(year, 2, 1), NewDateYMD(year, 5, 1)>>
                    [] season = "summer" -> <<NewDateYMD(year, 5, 1), NewDateYMD(year, 8, 1)>>
                    [] season \in {"autumn", "fall"} ->
                                            <<NewDateYMD(year, 8, 1), NewDateYMD(year, 11, 1)>>
                    [] season = "winter" -> <<NewDateYMD(year, 11, 1), NewDateYMD(year + 1, 2, 1)>>
    IN  [kind |-> "vagueRange", start |-> iso(window[1]), end |-> iso(window[2]),
         label |-> "season", season |-> season]

\* Mutant: the base date is snapped back to the Saturday at or before it.
weekendBranch_snapBack(query) ==
    LET r        == query.chrono
        baseDate == IF query.weekendOf /\ r # Null THEN r[1].start
                    ELSE IF query.nextWeekend THEN addDays(now, 7)
                    ELSE now
        diff     == (getDay(baseDate) + 1) % 7
        sat      == addDays(baseDate, 0 - diff)
    IN  [kind |-> "single", date |-> iso(sat)]

\* Lines 240-264: the word "weekend" was matched.
weekendBranch(query) ==
    LET r        == query.chrono
        baseDate == IF query.weekendOf /\ r # Null THEN r[1].start
                    ELSE IF query.nextWeekend THEN addDays(now, 7)
                    ELSE now
        diff     == (Saturday - getDay(baseDate) + 7) % 7
        sat      == addDays(baseDate, diff)
    IN  [kind |-> "single", date |-> iso(sat)]

\* Mutant: a vague-week marker is looked at before a vague-month marker.
generalParse_weekFirst(query) ==
    LET r == query.chrono
    IN  IF r = Null THEN Invalid
        ELSE IF r[1].end # Null
             THEN [kind |-> "range", start |-> iso(r[1].start), end |-> iso(r[1].end[1])]
        ELSE LET baseDate == r[1].start
             IN  IF query.week
                 THEN [kind |-> "vagueRange", start |-> iso(baseDate),
                       end |-> iso(addDays(baseDate, 7)), label |-> "week"]
                 ELSE IF query.monthOnly
                 THEN [kind |-> "vagueRange",
                       start |-> iso(NewDateYMD(getFullYear(baseDate), getMonth(baseDate), 1)),
                       end |-> iso(NewDateYMD(getFullYear(baseDate), getMonth(baseDate) + 1, 1)),
                       label |-> "month"]
                 ELSE [kind |-> "single", date |-> iso(baseDate)]

\* Lines 267-325: what chrono extracted decides.
generalParse(query) ==
    LET r == query.chrono
    IN  IF r = Null THEN Invalid
        ELSE IF r[1].end # Null
             THEN [kind |-> "range", start |-> iso(r[1].start), end |-> iso(r[1].end[1])]
        ELSE LET baseDate == r[1].start
             IN  IF query.monthOnly
                 THEN [kind |-> "vagueRange",
                       start |-> iso(NewDateYMD(getFullYear(baseDate), getMonth(baseDate), 1)),
                       end |-> iso(NewDateYMD(getFullYear(baseDate), getMonth(baseDate) + 1, 1)),
                       label |-> "month"]
                 ELSE IF query.week
                 THEN [kind |-> "vagueRange", start |-> iso(baseDate),
                       end |-> iso(addDays(baseDate, 7)), label |-> "week"]
                 ELSE [kind |-> "single", date |-> iso(baseDate)]

\* Mutant: the weekend recognizer runs before the season recognizer.
interpretQuery_weekendFirst(query) ==
    IF Falsy(query) \/ query.type # "text" THEN Invalid
    ELSE IF query.weekend THEN weekendBranch(query)
    ELSE IF query.season # "none" THEN seasonBranch(query)
    ELSE generalParse(query)

\* Mutant: an extracted start-end range is returned before any keyword is looked at.
interpretQuery_rangeFirst(query) ==
    IF Falsy(query) \/ query.type # "text" THEN Invalid
    ELSE IF query.chrono # Null /\ query.chrono[1].end # Null THEN generalParse(query)
    ELSE IF query.season # "none" THEN seasonBranch(query)
    ELSE IF query.weekend THEN weekendBranch(query)
    ELSE generalParse(query)

interpretQuery(query) ==
    IF Falsy(query) \/ query.type # "text" THEN Invalid
    ELSE IF query.season # "none" THEN seasonBranch(query)
    ELSE IF query.weekend THEN weekendBranch(query)
    ELSE generalParse(query)

(***************************************************************************)
(* Response composition (index.js:39-48, 362-506).                         *)
(***************************************************************************)
\* "Sat, 27 Jun 2026": weekday name, day of month, month name, year, as indices.
formatDateUK(dateInput) ==
    LET d == NewDate(dateInput)
        c == CivilFromDays(iso(d))
    IN  [dayName |-> getDay(d), day |-> c.date, month |-> c.month, year |-> c.year]

\* `around £${price}` when the price is not null, else "available".
priceText(price) ==
    IF price # Null THEN [text |-> "around", price |-> price[1]]
    ELSE [text |-> "available"]

\* Mutant: the found week is always announced as the requested one.
singleMode_alwaysGoodNews(text, interp, bks) ==
    LET chosen     == interp.date
        targetWeek == findNextAvailableWeek(chosen, bks, DefaultLookahead)
    IN  IF targetWeek = Null
        THEN [status |-> 200, mode |-> "single", query |-> text,
              message |-> [text |-> "couldn't find an available Sat-Sat week"]]
        ELSE [status |-> 200, mode |-> "single", query |-> text,
              snappedWeek |-> targetWeek[1],
              message |->
                  [text |-> "Good news",
                   niceStart |-> formatDateUK(targetWeek[1].start),
                   niceEnd |-> formatDateUK(targetWeek[1].end),
                   priceText |-> priceText(targetWeek[1].price)]]

\* Lines 362-401.
singleMode(text, interp, bks) ==
    LET chosen     == interp.date
        targetWeek == findNextAvailableWeek(chosen, bks, DefaultLookahead)
    IN  IF targetWeek = Null
        THEN [status |-> 200, mode |-> "single", query |-> text,
              message |-> [text |-> "couldn't find an available Sat-Sat week"]]
        ELSE LET snapped        == snapToSaturday(chosen)
                 includesChosen == targetWeek[1].start = snapped /\ ~targetWeek[1].booked
             IN  [status |-> 200, mode |-> "single", query |-> text,
                  snappedWeek |-> targetWeek[1],
                  message |->
                      [text |-> IF includesChosen THEN "Good news"
                                ELSE "That exact week looks busy",
                       niceStart |-> formatDateUK(targetWeek[1].start),
                       niceEnd |-> formatDateUK(targetWeek[1].end),
                       priceText |-> priceText(targetWeek[1].price)]]

\* Lines 406-454.
\* Mutant: the fallback search also runs for an unbooked week without a price.
rangeMode_searchWhenUnpriced(text, interp, bks) ==
    LET start        == interp.start
        end          == interp.end
        snappedStart == snapToSaturday(start)
        weekInfo     == getWeekInfo(snappedStart, bks)
    IN  IF weekInfo.booked \/ weekInfo.price = Null
        THEN LET alt == findNextAvailableWeek(start, bks, DefaultLookahead)
             IN  IF alt # Null
                 THEN [status |-> 200, mode |-> "range", query |-> text,
                       requestedRange |-> [start |-> start, end |-> end],
                       snappedWeek |-> weekInfo, altWeek |-> alt[1],
                       message |->
                           [text |-> "That range includes booked dates. The next available",
                            niceStart |-> formatDateUK(alt[1].start),
                            niceEnd |-> formatDateUK(alt[1].end),
                            priceText |-> priceText(alt[1].price)]]
                 ELSE [status |-> 200, mode |-> "range", query |-> text,
                       requestedRange |-> [start |-> start, end |-> end],
                       snappedWeek |-> weekInfo,
                       message |->
                           [text |-> "That range includes booked dates and I couldn't find"]]
        ELSE [status |-> 200, mode |-> "range", query |-> text,
              requestedRange |-> [start |-> start, end |-> end],
              snappedWeek |-> weekInfo,
              message |->
                  [text |-> "Good news",
                   niceStart |-> formatDateUK(weekInfo.start),
                   niceEnd |-> formatDateUK(weekInfo.end),
                   priceText |-> priceText(weekInfo.price)]]

rangeMode(text, interp, bks) ==
    LET start        == interp.start
        end          == interp.end
        snappedStart == snapToSaturday(start)
        weekInfo     == getWeekInfo(snappedStart, bks)
    IN  IF weekInfo.booked
        THEN LET alt == findNextAvailableWeek(start, bks, DefaultLookahead)
             IN  IF alt # Null
                 THEN [status |-> 200, mode |-> "range", query |-> text,
                       requestedRange |-> [start |-> start, end |-> end],
                       snappedWeek |-> weekInfo, altWeek |-> alt[1],
                       message |->
                           [text |-> "That range includes booked dates. The next available",
                            niceStart |-> formatDateUK(alt[1].start),
                            niceEnd |-> formatDateUK(alt[1].end),
                            priceText |-> priceText(alt[1].price)]]
                 ELSE [status |-> 200, mode |-> "range", query |-> text,
                       requestedRange |-> [start |-> start, end |-> end],
                       snappedWeek |-> weekInfo,
                       message |->
                           [text |-> "That range includes booked dates and I couldn't find"]]
        ELSE [status |-> 200, mode |-> "range", query |-> text,
              requestedRange |-> [start |-> start, end |-> end],
              snappedWeek |-> weekInfo,
              message |->
                  [text |-> "Good news",
                   niceStart |-> formatDateUK(weekInfo.start),
                   niceEnd |-> formatDateUK(weekInfo.end),
                   priceText |-> priceText(weekInfo.price)]]

\* Mutant: the preview lists every week found.
summaryList_noSlice(weeks) ==
    [i \in 1..Len(weeks) |->
        [sNice |-> formatDateUK(weeks[i].start),
         eNice |-> formatDateUK(weeks[i].end),
         price |-> IF weeks[i].price # Null /\ weeks[i].price[1] # 0
                   THEN weeks[i].price ELSE Null]]

\* weeks.slice(0, 3).map(...): the preview of the message, a price of 0 left out.
summaryList(weeks) ==
    [i \in 1..(IF Len(weeks) < 3 THEN Len(weeks) ELSE 3) |->
        [sNice |-> formatDateUK(weeks[i].start),
         eNice |-> formatDateUK(weeks[i].end),
         price |-> IF weeks[i].price # Null /\ weeks[i].price[1] # 0
                   THEN weeks[i].price ELSE Null]]

\* Lines 460-501.
vagueRangeMode(text, interp, bks) ==
    LET start == interp.start
        end   == interp.end
        weeks == findAvailableWeeksBetween(start, end, bks)
    IN  IF Len(weeks) = 0
        THEN [status |-> 200, mode |-> "vagueRange", query |-> text,
              range |-> [start |-> start, end |-> end],
              availableWeeks |-> <<>>,
              message |-> [text |-> "couldn't see any clear Sat-Sat availability"]]
        ELSE LET first == weeks[1]
             IN  [status |-> 200, mode |-> "vagueRange", query |-> text,
                  range |-> [start |-> start, end |-> end],
                  availableWeeks |-> weeks,
                  message |->
                      [text |-> "Good news",
                       niceStart |-> formatDateUK(first.start),
                       niceEnd |-> formatDateUK(first.end),
                       priceText |-> priceText(first.price),
                       summaryList |-> summaryList(weeks)]]

\* Lines 362-506: the handler once the bookings are loaded.
resolve(text, interp, bks) ==
    IF interp.kind = "single" THEN singleMode(text, interp, bks)
    ELSE IF interp.kind = "range" THEN rangeMode(text, interp, bks)
    ELSE IF interp.kind = "vagueRange" THEN vagueRangeMode(text, interp, bks)
    ELSE [status |-> 400, error |-> "Could not interpret request."]

MissingInput == [status |-> 400, error |-> "Missing 'query' or 'date' in body"]

InvalidResponse ==
    [status |-> 200, mode |-> "invalid",
     message |-> [text |-> "Sorry - I couldn't quite read those dates."]]

ServerError == [status |-> 500, error |-> "Server error"]

(***************************************************************************)
(* POST /check (index.js:337-511).  A request runs from its arrival to the *)
(* await of loadBookings() in one step, and from the outcome of the fetch  *)
(* to its response in another.                                             *)
(*   pc: "off" (no such request), "idle" (not yet arrived),                *)
(*       "fetching" (awaiting loadBookings), "done" (response sent)        *)
(***************************************************************************)
\* Mutant: the check for a missing input is left out.
Receive_noInputCheck(r, body) ==
    /\ pc[r] = "idle"
    /\ LET text   == IF ~Falsy(body.query) THEN body.query ELSE body.date
           interp == interpretQuery(text)
       IN  /\ userText' = [userText EXCEPT ![r] = Some(text)]
           /\ interpretation' = [interpretation EXCEPT ![r] = Some(interp)]
           /\ IF interp.kind = "invalid"
              THEN /\ response' = [response EXCEPT ![r] = Some(InvalidResponse)]
                   /\ pc' = [pc EXCEPT ![r] = "done"]
              ELSE /\ pc' = [pc EXCEPT ![r] = "fetching"]
                   /\ UNCHANGED response
    /\ UNCHANGED <<prices, now, call, bookings>>

\* Mutant: the bookings are loaded before the interpretation is looked at.
Receive_fetchFirst(r, body) ==
    /\ pc[r] = "idle"
    /\ LET text == IF ~Falsy(body.query) THEN body.query ELSE body.date
       IN  /\ userText' = [userText EXCEPT ![r] = Some(text)]
           /\ IF Falsy(text)
              THEN /\ response' = [response EXCEPT ![r] = Some(MissingInput)]
                   /\ pc' = [pc EXCEPT ![r] = "done"]
                   /\ UNCHANGED interpretation
              ELSE /\ interpretation' = [interpretation EXCEPT ![r] = Some(interpretQuery(text))]
                   /\ pc' = [pc EXCEPT ![r] = "fetching"]
                   /\ UNCHANGED response
    /\ UNCHANGED <<prices, now, call, bookings>>

\* Mutant: the interpretation is kept in one module-level variable that every
\* request in flight reads after its fetch.
Receive_globalInterpretation(r, body) ==
    /\ pc[r] = "idle"
    /\ LET text == IF ~Falsy(body.query) THEN body.query ELSE body.date
       IN  /\ userText' = [userText EXCEPT ![r] = Some(text)]
           /\ IF Falsy(text)
              THEN /\ response' = [response EXCEPT ![r] = Some(MissingInput)]
                   /\ pc' = [pc EXCEPT ![r] = "done"]
                   /\ UNCHANGED interpretation
              ELSE LET interp == interpretQuery(text)
                   IN  /\ interpretation' = [s \in DOMAIN interpretation |-> Some(interp)]
                       /\ IF interp.kind = "invalid"
                          THEN /\ response' = [response EXCEPT ![r] = Some(InvalidResponse)]
                               /\ pc' = [pc EXCEPT ![r] = "done"]
                          ELSE /\ pc' = [pc EXCEPT ![r] = "fetching"]
                               /\ UNCHANGED response
    /\ UNCHANGED <<prices, now, call, bookings>>

\* Lines 339-357: up to the call of loadBookings.
Receive(r, body) ==
    /\ pc[r] = "idle"
    /\ LET text == IF ~Falsy(body.query) THEN body.query ELSE body.date
       IN  /\ userText' = [userText EXCEPT ![r] = Some(text)]
           /\ IF Falsy(text)
              THEN /\ response' = [response EXCEPT ![r] = Some(MissingInput)]
                   /\ pc' = [pc EXCEPT ![r] = "done"]
                   /\ UNCHANGED interpretation
              ELSE LET interp == interpretQuery(text)
                   IN  /\ interpretation' = [interpretation EXCEPT ![r] = Some(interp)]
                       /\ IF interp.kind = "invalid"
                          THEN /\ response' = [response EXCEPT ![r] = Some(InvalidResponse)]
                               /\ pc' = [pc EXCEPT ![r] = "done"]
                          ELSE /\ pc' = [pc EXCEPT ![r] = "fetching"]
                               /\ UNCHANGED response
    /\ UNCHANGED <<prices, now, call, bookings>>

\* Lines 357-506: loadBookings resolves with a list and the handler answers.
FetchOk(r, bks) ==
    /\ pc[r] = "fetching"
    /\ bookings' = [bookings EXCEPT ![r] = Some(bks)]
    /\ response' = [response EXCEPT ![r] =
                       Some(resolve(userText[r][1], interpretation[r][1], bks))]
    /\ pc' = [pc EXCEPT ![r] = "done"]
    /\ UNCHANGED <<prices, now, call, userText, interpretation>>

\* Mutant: a failed fetch is taken for an empty calendar and the request is resolved.
FetchFail_allFree(r) ==
    /\ pc[r] = "fetching"
    /\ response' = [response EXCEPT ![r] =
                       Some(resolve(userText[r][1], interpretation[r][1], <<>>))]
    /\ pc' = [pc EXCEPT ![r] = "done"]
    /\ UNCHANGED <<prices, now, call, userText, interpretation, bookings>>

\* Lines 357, 507-510: loadBookings rejects and the catch answers.
FetchFail(r) ==
    /\ pc[r] = "fetching"
    /\ response' = [response EXCEPT ![r] = Some(ServerError)]
    /\ pc' = [pc EXCEPT ![r] = "done"]
    /\ UNCHANGED <<prices, now, call, userText, interpretation, bookings>>

(***************************************************************************)
(* Inputs of the model.  S0 is Saturday 27 June 2026.                      *)
(***************************************************************************)
S0 == DaysFromCivil(2026, 6, 27)

\* Price bands as prices.json holds them: ISO dates and a weekly price.
BandSet ==
    { [start |-> S0,      end |-> S0 + 7,  price |-> 1500],
      [start |-> S0,      end |-> S0 + 70, price |-> 1200],
      [start |-> S0 + 14, end |-> S0 + 28, price |-> 1000] }

SeqsUpTo(S, n) == UNION { [1..k -> S] : k \in 0..n }

PriceTables == SeqsUpTo(BandSet, MaxBands)

\* Booked blocks of the calendar feed: instants, not all of them at midnight.
BookingPoints ==
    { NewDate(S0), NewDate(S0 + 7), NewDate(S0 + 10) + 1, NewDate(S0 + 56) }

BookingSet ==
    { [start |-> a, end |-> b] : <<a, b>> \in { p \in BookingPoints \X BookingPoints : p[1] < p[2] } }

BookingLists == SeqsUpTo(BookingSet, MaxBookings)

\* Dates a search is asked about: every weekday once, around S0.
FromDays == (S0 - 1)..(S0 + 7)

\* Ends of a search window: before the start, inside the first week, on a Saturday, later,
\* and past the lookahead of findNextAvailableWeek.
EndDays == { S0 - 2, S0 + 1, S0 + 7, S0 + 21, S0 + 36, S0 + 63 }

\* The clock when a request arrives: Wednesday 24 June 2026 at noon, Saturday 27 June at midnight.
NowSet == { NewDate(S0 - 3) + 1, NewDate(S0) }

\* What chrono extracts from a text: dates at a time of day past midnight.
ChronoDates == { NewDate(S0 + 3) + 1, NewDate(S0 + 9) + 1, NewDate(S0 + 14) + 1 }

ChronoResults ==
    {Null}
    \cup { Some([start |-> a, end |-> Null]) : a \in ChronoDates }
    \cup { Some([start |-> p[1], end |-> Some(p[2])]) :
             p \in { x \in ChronoDates \X ChronoDates : x[1] < x[2] } }

SeasonWords == {"spring", "summer", "autumn", "fall", "winter"}

ExplicitYears == {2027}

\* A value that is no text: none of the code's tests of a string applies to it.
Blank(type) ==
    [type |-> type, season |-> "none", year |-> Null, next |-> FALSE, weekend |-> FALSE,
     weekendOf |-> FALSE, nextWeekend |-> FALSE, thisWeekend |-> FALSE,
     monthOnly |-> FALSE, week |-> FALSE, chrono |-> Null]

\* The strings: every combination of test outcomes one string can produce
\* ("next weekend" contains "weekend", "next" and "next week").
Texts ==
    { q \in [type : {"text"}, season : SeasonWords \cup {"none"},
             year : {Null} \cup { Some(y) : y \in ExplicitYears },
             next : BOOLEAN, weekend : BOOLEAN, weekendOf : BOOLEAN,
             nextWeekend : BOOLEAN, thisWeekend : BOOLEAN,
             monthOnly : BOOLEAN, week : BOOLEAN, chrono : ChronoResults] :
        /\ q.weekendOf => q.weekend
        /\ q.thisWeekend => q.weekend
        /\ q.nextWeekend => (q.weekend /\ q.next /\ q.week) }

JsonValues == Texts \cup { Blank("absent"), Blank("empty"), Blank("other") }

\* The texts sent to /check: of the strings, those whose season word is "summer" or
\* none, with no 4-digit year and no "weekend of" / "this weekend".
HandlerTexts ==
    { q \in Texts : /\ q.season \in {"none", "summer"}
                    /\ q.year = Null
                    /\ ~q.weekendOf
                    /\ ~q.thisWeekend }

\* A legacy body's date: a plain ISO date, which chrono reads as a start.
LegacyDates ==
    { q \in HandlerTexts : /\ q.season = "none"
                           /\ ~q.next /\ ~q.weekend /\ ~q.monthOnly /\ ~q.week
                           /\ q.chrono # Null
                           /\ q.chrono[1].end = Null }

\* Request bodies { query, date }: a query, a legacy date, or neither.
Bodies ==
    { [query |-> q, date |-> Blank("absent")] : q \in HandlerTexts \cup {Blank("other")} }
    \cup { [query |-> Blank("absent"), date |-> d] : d \in LegacyDates }
    \cup { [query |-> Blank("absent"), date |-> Blank("absent")],
           [query |-> Blank("empty"), date |-> Blank("empty")] }

\* The price tables the handler runs with: no band, or one.
HandlerTables == { t \in PriceTables : Len(t) <= 1 }

Requests == 1..2

NoCall == [op |-> "none", dateStr |-> 0, endStr |-> 0, bks |-> <<>>, result |-> <<>>]

(***************************************************************************)
(* The resolver called on its own: one call of one search per behaviour.   *)
(***************************************************************************)
HandlerIdle ==
    /\ pc = [r \in Requests |-> "off"]
    /\ userText = [r \in Requests |-> Null]
    /\ interpretation = [r \in Requests |-> Null]
    /\ bookings = [r \in Requests |-> Null]
    /\ response = [r \in Requests |-> Null]

InitWeeks ==
    /\ prices \in PriceTables
    /\ now = NewDate(S0)
    /\ call = NoCall
    /\ HandlerIdle

CallFindNext(dateStr, bks) ==
    /\ call.op = "none"
    /\ call' = [op |-> "findNextAvailableWeek", dateStr |-> dateStr, endStr |-> dateStr,
                bks |-> bks,
                result |-> findNextAvailableWeek(dateStr, bks, DefaultLookahead)]
    /\ UNCHANGED <<prices, now, pc, userText, interpretation, bookings, response>>

CallFindBetween(startStr, endStr, bks) ==
    /\ call.op = "none"
    /\ call' = [op |-> "findAvailableWeeksBetween", dateStr |-> startStr, endStr |-> endStr,
                bks |-> bks,
                result |-> findAvailableWeeksBetween(startStr, endStr, bks)]
    /\ UNCHANGED <<prices, now, pc, userText, interpretation, bookings, response>>

NextWeeks ==
    \/ \E d \in FromDays, b \in BookingLists : CallFindNext(d, b)
    \/ \E s \in FromDays, e \in EndDays, b \in BookingLists : CallFindBetween(s, e, b)

SpecWeeks == InitWeeks /\ [][NextWeeks]_vars

\* A week qualifies when it is unbooked and priced.
Qualifies(w) == ~w.booked /\ w.price # Null

(***************************************************************************)
(* C1: findNextAvailableWeek (lookahead 8) never returns a booked or an    *)
(* unpriced week, and when it returns null each of the 8 Sat-Sat weeks     *)
(* starting at snap(fromDate) + 7k, k = 0..7, is booked or unpriced.       *)
(***************************************************************************)
C1_NextNeverBookedOrUnpriced ==
    call.op = "findNextAvailableWeek" =>
        LET sat == snapToSaturday(call.dateStr)
        IN  /\ call.result # Null =>
                   /\ call.result[1].booked = FALSE
                   /\ call.result[1].price # Null
            /\ call.result = Null =>
                   \A k \in 0..(DefaultLookahead - 1) :
                       ~Qualifies(getWeekInfo(sat + 7 * k, call.bks))

\* The search gave up although a week of its window is priced (it is booked).
C1_Witness ==
    /\ call.op = "findNextAvailableWeek"
    /\ call.result = Null
    /\ \E k \in 0..(DefaultLookahead - 1) :
           getWeekInfo(snapToSaturday(call.dateStr) + 7 * k, call.bks).price # Null

(***************************************************************************)
(* C2: a week returned by findNextAvailableWeek is the earliest qualifying *)
(* one: it starts at snap(fromDate) + 7k with 0 <= k < 8 and every week    *)
(* snap(fromDate) + 7j, j < k, is booked or unpriced.                      *)
(***************************************************************************)
C2_NextIsEarliest ==
    (call.op = "findNextAvailableWeek" /\ call.result # Null) =>
        LET sat == snapToSaturday(call.dateStr)
            w   == call.result[1]
        IN  \E k \in 0..(DefaultLookahead - 1) :
                /\ w.start = sat + 7 * k
                /\ w = getWeekInfo(sat + 7 * k, call.bks)
                /\ \A j \in 0..(k - 1) : ~Qualifies(getWeekInfo(sat + 7 * j, call.bks))

\* The returned week is a later one: the requested week was booked or unpriced.
C2_Witness ==
    /\ call.op = "findNextAvailableWeek"
    /\ call.result # Null
    /\ call.result[1].start >= snapToSaturday(call.dateStr) + 14

(***************************************************************************)
(* C4: findAvailableWeeksBetween returns weeks in strictly increasing      *)
(* start order, consecutive starts a positive multiple of 7 days apart,    *)
(* every start a Saturday, every week unbooked and priced.                 *)
(***************************************************************************)
C4_BetweenOrderedAndQualifying ==
    call.op = "findAvailableWeeksBetween" =>
        LET ws == call.result
        IN  /\ \A i \in 1..Len(ws) :
                   /\ getDay(NewDate(ws[i].start)) = Saturday
                   /\ ws[i].booked = FALSE
                   /\ ws[i].price # Null
            /\ \A i \in 1..(Len(ws) - 1) :
                   /\ ws[i + 1].start > ws[i].start
                   /\ (ws[i + 1].start - ws[i].start) % 7 = 0

\* Two weeks returned with a skipped week between them.
C4_Witness ==
    /\ call.op = "findAvailableWeeksBetween"
    /\ \E i \in 1..(Len(call.result) - 1) :
           call.result[i + 1].start - call.result[i].start >= 14

(***************************************************************************)
(* C5: findAvailableWeeksBetween is complete: its result holds exactly the *)
(* qualifying weeks starting at snap(rangeStart) + 7k, k >= 0, before      *)
(* rangeEnd; so it is empty iff no week of the range qualifies, and it is  *)
(* empty when rangeEnd is not after snap(rangeStart).                      *)
(***************************************************************************)
WeekStartsInRange(startStr, endStr) ==
    { d \in (snapToSaturday(startStr))..(endStr - 1) : (d - snapToSaturday(startStr)) % 7 = 0 }

C5_BetweenComplete ==
    call.op = "findAvailableWeeksBetween" =>
        LET ws   == call.result
            want == { getWeekInfo(d, call.bks) :
                        d \in { x \in WeekStartsInRange(call.dateStr, call.endStr) :
                                  Qualifies(getWeekInfo(x, call.bks)) } }
        IN  /\ { ws[i] : i \in 1..Len(ws) } = want
            /\ Len(ws) = Cardinality(want)
            /\ (ws = <<>>) <=> (want = {})
            /\ call.endStr <= snapToSaturday(call.dateStr) => ws = <<>>

\* Some weeks of the range are returned and some are left out.
C5_Witness ==
    /\ call.op = "findAvailableWeeksBetween"
    /\ Len(call.result) >= 2
    /\ \E d \in WeekStartsInRange(call.dateStr, call.endStr) :
           ~Qualifies(getWeekInfo(d, call.bks))

(***************************************************************************)
(* The interpreter called on its own: one call per behaviour.              *)
(***************************************************************************)
InitInterp ==
    /\ prices = <<>>
    /\ now \in NowSet
    /\ call = NoCall
    /\ HandlerIdle

CallInterpret(q) ==
    /\ call.op = "none"
    /\ call' = [op |-> "interpretQuery", query |-> q, result |-> interpretQuery(q)]
    /\ UNCHANGED <<prices, now, pc, userText, interpretation, bookings, response>>

NextInterp == \E q \in JsonValues : CallInterpret(q)

SpecInterp == InitInterp /\ [][NextInterp]_vars

Interpreted == call.op = "interpretQuery" /\ call.query.type = "text"

(***************************************************************************)
(* C6 as claimed: the recognizers run in the order weekend, season,        *)
(* general parse, so a text with the word "weekend" and a season word is   *)
(* resolved by the weekend recognizer to a single date.                    *)
(***************************************************************************)
C6_WeekendBeforeSeason ==
    (Interpreted /\ call.query.weekend /\ call.query.season # "none") =>
        call.result.kind = "single"

(***************************************************************************)
(* C6 as amended: the recognizers run in the order season, weekend,        *)
(* general parse and the first match wins: a text with a season word is a  *)
(* season vague range even if it has the word "weekend"; a text with       *)
(* "weekend" and no season word is a single date whatever chrono read.     *)
(***************************************************************************)
C6_SeasonBeforeWeekend ==
    Interpreted =>
        /\ call.query.season # "none" =>
               /\ call.result.kind = "vagueRange"
               /\ call.result.label = "season"
        /\ (call.query.season = "none" /\ call.query.weekend) =>
               /\ call.result.kind = "single"
               /\ getDay(NewDate(call.result.date)) = Saturday

\* "summer weekend": both words, and the answer is the season's window.
C6_Witness ==
    /\ Interpreted
    /\ call.query.weekend
    /\ call.query.season = "summer"
    /\ call.result.kind = "vagueRange"

(***************************************************************************)
(* C7: a text with a season word from which the general parser extracted   *)
(* a start and an end resolves through the season branch: a vague range    *)
(* labelled "season", never an exact range.                                *)
(***************************************************************************)
C7_SeasonBeatsExplicitRange ==
    (/\ Interpreted
     /\ call.query.season # "none"
     /\ call.query.chrono # Null
     /\ call.query.chrono[1].end # Null) =>
        /\ call.result.kind = "vagueRange"
        /\ call.result.label = "season"
        /\ call.result.season = call.query.season

C7_Witness ==
    /\ Interpreted
    /\ call.query.season = "summer"
    /\ ~call.query.weekend
    /\ call.query.chrono # Null
    /\ call.query.chrono[1].end # Null
    /\ call.result.kind = "vagueRange"

(***************************************************************************)
(* C8: with no season word and no "weekend", the general parse decides in  *)
(* strict priority: no date extracted -> invalid; a start and an end ->    *)
(* range; else a vague-month marker -> vagueRange month; else a vague-week *)
(* marker -> vagueRange week; else single.                                 *)
(***************************************************************************)
C8_GeneralParsePriority ==
    (Interpreted /\ call.query.season = "none" /\ ~call.query.weekend) =>
        LET q == call.query
            r == q.chrono
            k == call.result.kind
        IN  /\ r = Null => k = "invalid"
            /\ (r # Null /\ r[1].end # Null) =>
                   /\ k = "range"
                   /\ call.result.start = iso(r[1].start)
                   /\ call.result.end = iso(r[1].end[1])
            /\ (r # Null /\ r[1].end = Null /\ q.monthOnly) =>
                   (k = "vagueRange" /\ call.result.label = "month")
            /\ (r # Null /\ r[1].end = Null /\ ~q.monthOnly /\ q.week) =>
                   (k = "vagueRange" /\ call.result.label = "week")
            /\ (r # Null /\ r[1].end = Null /\ ~q.monthOnly /\ ~q.week) =>
                   (k = "single" /\ call.result.date = iso(r[1].start))

\* Both markers and no end date: the month wins.
C8_Witness ==
    /\ Interpreted
    /\ call.query.season = "none"
    /\ ~call.query.weekend
    /\ call.query.monthOnly
    /\ call.query.week
    /\ call.query.chrono # Null
    /\ call.query.chrono[1].end = Null
    /\ call.result.kind = "vagueRange"
    /\ call.result.label = "month"

(***************************************************************************)
(* The server: the price table is loaded, then a /check request arrives,   *)
(* awaits the calendar and is answered.                                    *)
(***************************************************************************)
Init ==
    /\ prices \in HandlerTables
    /\ now \in NowSet
    /\ call = NoCall
    /\ pc = [r \in Requests |-> IF r = 1 THEN "idle" ELSE "off"]
    /\ userText = [r \in Requests |-> Null]
    /\ interpretation = [r \in Requests |-> Null]
    /\ bookings = [r \in Requests |-> Null]
    /\ response = [r \in Requests |-> Null]

Next ==
    \E r \in Requests :
        \/ \E body \in Bodies : Receive(r, body)
        \/ \E bks \in BookingLists : FetchOk(r, bks)
        \/ FetchFail(r)

Spec == Init /\ [][Next]_vars

Answered(r) == pc[r] = "done" /\ response[r] # Null

(***************************************************************************)
(* C3: no mode of /check presents a week whose price is null as available: *)
(* a week a success response offers (the snapped week of a "Good news"     *)
(* message, the alternative week, the listed weeks) is unbooked and        *)
(* priced.  The range mode breaks it: it reports an unbooked week with no  *)
(* price band as available.                                                *)
(***************************************************************************)
C3_NullPriceNeverAvailable ==
    \A r \in Requests :
        (Answered(r) /\ response[r][1].status = 200) =>
            LET res == response[r][1]
            IN  /\ (res.mode = "single" /\ "snappedWeek" \in DOMAIN res) =>
                       Qualifies(res.snappedWeek)
                /\ (res.mode = "range" /\ res.message.text = "Good news") =>
                       Qualifies(res.snappedWeek)
                /\ (res.mode = "range" /\ "altWeek" \in DOMAIN res) =>
                       Qualifies(res.altWeek)
                /\ res.mode = "vagueRange" =>
                       \A i \in 1..Len(res.availableWeeks) : Qualifies(res.availableWeeks[i])

(***************************************************************************)
(* C9: a query interpreted as invalid is answered 200 with mode "invalid"  *)
(* and a guidance message, without the calendar being fetched: the request *)
(* never awaits loadBookings, so a failing fetch cannot change the answer. *)
(***************************************************************************)
C9_InvalidIsSuccess ==
    \A r \in Requests :
        (interpretation[r] # Null /\ interpretation[r][1].kind = "invalid") =>
            /\ pc[r] = "done"
            /\ bookings[r] = Null
            /\ response[r] # Null
            /\ response[r][1].status = 200
            /\ response[r][1].mode = "invalid"
            /\ "message" \in DOMAIN response[r][1]

\* A string no recognizer matches has been answered.
C9_Witness ==
    \E r \in Requests :
        /\ Answered(r)
        /\ userText[r][1].type = "text"
        /\ interpretation[r] = Some(Invalid)
        /\ response[r][1].mode = "invalid"

(***************************************************************************)
(* C10: a request whose body has neither query nor date is answered 400    *)
(* at once: nothing is interpreted, the calendar is not fetched, no week   *)
(* is resolved.                                                            *)
(***************************************************************************)
C10_MissingInputRejected ==
    \A r \in Requests :
        (userText[r] # Null /\ Falsy(userText[r][1])) =>
            /\ pc[r] = "done"
            /\ response[r] = Some(MissingInput)
            /\ response[r][1].status = 400
            /\ interpretation[r] = Null
            /\ bookings[r] = Null

C10_Witness ==
    \E r \in Requests :
        /\ Answered(r)
        /\ userText[r][1].type = "absent"
        /\ response[r][1].status = 400

(***************************************************************************)
(* C11: when loadBookings fails for a request interpreted as single, range *)
(* or vagueRange, the request ends with status 500 and no availability     *)
(* answer: the response has no mode, no week and no message, only the      *)
(* error.                                                                  *)
(***************************************************************************)
FetchFailed(r) ==
    /\ pc[r] = "done"
    /\ interpretation[r] # Null
    /\ interpretation[r][1].kind \in {"single", "range", "vagueRange"}
    /\ bookings[r] = Null

C11_FetchFailureIsServerError ==
    \A r \in Requests :
        FetchFailed(r) =>
            /\ response[r] # Null
            /\ response[r][1].status = 500
            /\ DOMAIN response[r][1] = {"status", "error"}

\* A vague-range request whose fetch failed has been answered.
C11_Witness ==
    \E r \in Requests :
        /\ FetchFailed(r)
        /\ interpretation[r][1].kind = "vagueRange"
        /\ response[r] = Some(ServerError)

(***************************************************************************)
(* Startup (index.js:7-20, 518-521).  The module reads and parses          *)
(* prices.json at its top level, outside any try, then listens.  A file    *)
(* that is absent makes readFileSync throw, one that is no JSON makes      *)
(* JSON.parse throw: the module fails to load and no request is served.    *)
(***************************************************************************)
PriceFiles ==
    { [state |-> "absent"], [state |-> "unparseable"] }
    \cup { [state |-> "ok", table |-> t] : t \in HandlerTables }

InitStartup ==
    /\ prices = <<>>
    /\ now \in NowSet
    /\ call = NoCall
    /\ HandlerIdle

Startup(file) ==
    /\ call.op = "none"
    /\ \A r \in Requests : pc[r] = "off"
    /\ IF file.state = "ok"
       THEN /\ prices' = file.table
            /\ pc' = [r \in Requests |-> IF r = 1 THEN "idle" ELSE "off"]
            /\ call' = [op |-> "startup", file |-> file, result |-> "listening"]
       ELSE /\ call' = [op |-> "startup", file |-> file, result |-> "threw"]
            /\ UNCHANGED <<prices, pc>>
    /\ UNCHANGED <<now, userText, interpretation, bookings, response>>

NextStartup ==
    \/ \E file \in PriceFiles : Startup(file)
    \/ Next

SpecStartup == InitStartup /\ [][NextStartup]_vars

(***************************************************************************)
(* C12: with prices.json absent or malformed the system fails closed: it   *)
(* keeps serving requests, every week price-unknown, instead of crashing.  *)
(* The code crashes at startup: nothing catches the throw of line 20.      *)
(***************************************************************************)
C12_FailsClosed ==
    (call.op = "startup" /\ call.file.state # "ok") =>
        /\ call.result = "listening"
        /\ \E r \in Requests : pc[r] # "off"
        /\ prices = <<>>

(***************************************************************************)
(* C13: a single-mode response is in exactly one of three branches:        *)
(* no-availability iff findNextAvailableWeek(date) is null; "Good news"    *)
(* iff the returned week starts at snap(date); else "That exact week looks *)
(* busy".  The last is taken exactly when the requested week is booked or  *)
(* unpriced and a later week within the lookahead qualifies.               *)
(***************************************************************************)
SingleAnswered(r) ==
    /\ Answered(r)
    /\ response[r][1].status = 200
    /\ response[r][1].mode = "single"

C13_SingleModeBranches ==
    \A r \in Requests :
        SingleAnswered(r) =>
            LET date == interpretation[r][1].date
                bks  == bookings[r][1]
                sat  == snapToSaturday(date)
                w    == findNextAvailableWeek(date, bks, DefaultLookahead)
                msg  == response[r][1].message.text
            IN  /\ msg \in {"couldn't find an available Sat-Sat week", "Good news",
                            "That exact week looks busy"}
                /\ (msg = "couldn't find an available Sat-Sat week") <=> (w = Null)
                /\ (msg = "Good news") <=> (w # Null /\ w[1].start = sat)
                /\ (msg = "That exact week looks busy") <=>
                       /\ ~Qualifies(getWeekInfo(sat, bks))
                       /\ \E k \in 1..(DefaultLookahead - 1) :
                              Qualifies(getWeekInfo(sat + 7 * k, bks))
                /\ w # Null => response[r][1].snappedWeek = w[1]

\* The requested week is priced but booked, and a later week is offered.
C13_Witness ==
    \E r \in Requests :
        /\ SingleAnswered(r)
        /\ response[r][1].message.text = "That exact week looks busy"
        /\ getWeekInfo(snapToSaturday(interpretation[r][1].date), bookings[r][1]).booked
        /\ response[r][1].snappedWeek.start > snapToSaturday(interpretation[r][1].date)

(***************************************************************************)
(* C14: in range mode the handler resolves the Sat-Sat week containing the *)
(* range start.  The fallback search runs iff that week is booked: an      *)
(* unbooked week is reported itself and the response has no altWeek; a     *)
(* booked week yields altWeek = the search result when it succeeds and the *)
(* none-found message when it returns null.                                *)
(***************************************************************************)
RangeAnswered(r) ==
    /\ Answered(r)
    /\ response[r][1].status = 200
    /\ response[r][1].mode = "range"

C14_RangeModeBranches ==
    \A r \in Requests :
        RangeAnswered(r) =>
            LET start == interpretation[r][1].start
                bks   == bookings[r][1]
                week  == getWeekInfo(snapToSaturday(start), bks)
                alt   == findNextAvailableWeek(start, bks, DefaultLookahead)
                resp  == response[r][1]
            IN  /\ resp.snappedWeek = week
                /\ week.start <= start /\ start < week.end
                /\ ~week.booked =>
                       /\ "altWeek" \notin DOMAIN resp
                       /\ resp.message.text = "Good news"
                       /\ resp.message.niceStart = formatDateUK(week.start)
                       /\ resp.message.niceEnd = formatDateUK(week.end)
                /\ (week.booked /\ alt # Null) =>
                       /\ "altWeek" \in DOMAIN resp
                       /\ resp.altWeek = alt[1]
                       /\ resp.message.text =
                              "That range includes booked dates. The next available"
                /\ (week.booked /\ alt = Null) =>
                       /\ "altWeek" \notin DOMAIN resp
                       /\ resp.message.text =
                              "That range includes booked dates and I couldn't find"

\* A booked week for which the fallback search found a later week.
C14_Witness ==
    \E r \in Requests :
        /\ RangeAnswered(r)
        /\ response[r][1].snappedWeek.booked
        /\ "altWeek" \in DOMAIN response[r][1]
        /\ response[r][1].altWeek.start > response[r][1].snappedWeek.start

(***************************************************************************)
(* C15: in vagueRange mode the response says 'no availability' with an     *)
(* empty availableWeeks iff findAvailableWeeksBetween returned no week;    *)
(* otherwise availableWeeks is the whole result in order and the preview   *)
(* of the message lists exactly its first min(3, n) weeks, in that order.  *)
(***************************************************************************)
VagueAnswered(r) ==
    /\ Answered(r)
    /\ response[r][1].status = 200
    /\ response[r][1].mode = "vagueRange"

C15_VagueRangePreview ==
    \A r \in Requests :
        VagueAnswered(r) =>
            LET weeks == findAvailableWeeksBetween(interpretation[r][1].start,
                                                   interpretation[r][1].end,
                                                   bookings[r][1])
                n     == Len(weeks)
                resp  == response[r][1]
            IN  /\ resp.availableWeeks = weeks
                /\ (resp.message.text = "couldn't see any clear Sat-Sat availability")
                       <=> (n = 0)
                /\ n = 0 => "summaryList" \notin DOMAIN resp.message
                /\ n > 0 =>
                       /\ resp.message.text = "Good news"
                       /\ Len(resp.message.summaryList) = (IF n < 3 THEN n ELSE 3)
                       /\ \A i \in 1..Len(resp.message.summaryList) :
                              /\ resp.message.summaryList[i].sNice =
                                     formatDateUK(weeks[i].start)
                              /\ resp.message.summaryList[i].eNice =
                                     formatDateUK(weeks[i].end)

\* More than three weeks are available and the preview stops at three.
C15_Witness ==
    \E r \in Requests :
        /\ VagueAnswered(r)
        /\ Len(response[r][1].availableWeeks) > 3
        /\ Len(response[r][1].message.summaryList) = 3

(***************************************************************************)
(* Two requests in flight at once.  The handler is an async function: it   *)
(* runs to the await of loadBookings, and its continuation runs when the   *)
(* fetch settles, so the steps of two requests interleave at that point.   *)
(***************************************************************************)
\* Plain texts: a season word or none, and what chrono reads in them.
ConcTexts ==
    { q \in HandlerTexts :
        /\ ~q.next /\ ~q.weekend /\ ~q.monthOnly /\ ~q.week
        /\ q.chrono \in { Null,
                          Some([start |-> NewDate(S0 + 3) + 1, end |-> Null]),
                          Some([start |-> NewDate(S0 + 3) + 1,
                                end |-> Some(NewDate(S0 + 9) + 1)]) } }

ConcBodies ==
    { [query |-> q, date |-> Blank("absent")] : q \in ConcTexts }
    \cup { [query |-> Blank("absent"), date |-> Blank("absent")] }

\* Calendar feeds whose blocks start on S0.
ConcBookingLists ==
    { l \in BookingLists : \A i \in 1..Len(l) : l[i].start = NewDate(S0) }

InitConc ==
    /\ prices \in HandlerTables
    /\ now \in NowSet
    /\ call = NoCall
    /\ pc = [r \in Requests |-> "idle"]
    /\ userText = [r \in Requests |-> Null]
    /\ interpretation = [r \in Requests |-> Null]
    /\ bookings = [r \in Requests |-> Null]
    /\ response = [r \in Requests |-> Null]

NextConc ==
    \E r \in Requests :
        \/ \E body \in ConcBodies : Receive(r, body)
        \/ \E bks \in ConcBookingLists : FetchOk(r, bks)
        \/ FetchFail(r)

SpecConc == InitConc /\ [][NextConc]_vars

\* The response the handler gives to a text and a fetch outcome, the other
\* request left out of account.
ExpectedResponse(text, fetched) ==
    IF Falsy(text)
    THEN MissingInput
    ELSE LET interp == interpretQuery(text)
         IN  IF interp.kind = "invalid" THEN InvalidResponse
             ELSE IF fetched = Null THEN ServerError
             ELSE resolve(text, interp, fetched[1])

\* The variables of request s are left as they are.
RequestUnchanged(s) ==
    /\ pc'[s] = pc[s]
    /\ userText'[s] = userText[s]
    /\ interpretation'[s] = interpretation[s]
    /\ bookings'[s] = bookings[s]
    /\ response'[s] = response[s]

(***************************************************************************)
(* C16: concurrent /check requests do not interfere.  Under every          *)
(* interleaving each response is the one determined by the request's own   *)
(* query text, the outcome of its own fetch and the price table; every     *)
(* step writes the variables of one request only, and the price table is   *)
(* never modified.                                                         *)
(***************************************************************************)
C16_NoInterference ==
    /\ [](\A r \in Requests :
            Answered(r) => response[r][1] = ExpectedResponse(userText[r][1], bookings[r]))
    /\ [][ /\ prices' = prices
           /\ \E r \in Requests : \A s \in Requests \ {r} : RequestUnchanged(s) ]_vars

\* Both requests asked the same question while their fetches were in flight
\* together, got different calendars and different answers.
C16_Witness ==
    /\ Answered(1) /\ Answered(2)
    /\ userText[1] = userText[2]
    /\ bookings[1] # Null /\ bookings[2] # Null
    /\ bookings[1] # bookings[2]
    /\ response[1][1].status = 200 /\ response[2][1].status = 200
    /\ response[1] # response[2]

(***************************************************************************)
(* The calendar helpers called on their own: one call per behaviour.       *)
(***************************************************************************)
\* Three weeks of dates around S0.
SnapDays == (S0 - 7)..(S0 + 13)

Saturdays == { d \in SnapDays : getDay(NewDate(d)) = Saturday }

\* Range bounds on and around the midnights the booked blocks cover.
RangeDays == { S0 - 1, S0, S0 + 6, S0 + 7, S0 + 8, S0 + 10, S0 + 11, S0 + 12 }

InitCalc ==
    /\ prices \in PriceTables
    /\ now = NewDate(S0)
    /\ call = NoCall
    /\ HandlerIdle

CallSnap(dateStr) ==
    /\ call.op = "none"
    /\ call' = [op |-> "snapToSaturday", dateStr |-> dateStr, endStr |-> dateStr,
                bks |-> <<>>, result |-> snapToSaturday(dateStr)]
    /\ UNCHANGED <<prices, now, pc, userText, interpretation, bookings, response>>

CallWeekInfo(satStr, bks) ==
    /\ call.op = "none"
    /\ call' = [op |-> "getWeekInfo", dateStr |-> satStr, endStr |-> satStr,
                bks |-> bks, result |-> getWeekInfo(satStr, bks)]
    /\ UNCHANGED <<prices, now, pc, userText, interpretation, bookings, response>>

CallBookedRange(startStr, endStr, bks) ==
    /\ call.op = "none"
    /\ call' = [op |-> "isBookedRange", dateStr |-> startStr, endStr |-> endStr,
                bks |-> bks, result |-> isBookedRange(startStr, endStr, bks)]
    /\ UNCHANGED <<prices, now, pc, userText, interpretation, bookings, response>>

\* Instants probed: the bounds of the booked blocks, a tick before and a tick after.
ProbeTimes == UNION { {p - 1, p, p + 1} : p \in BookingPoints }

\* Dates priced: the bounds of the bands, the day before each and one day inside.
PriceDays ==
    UNION { {b.start - 1, b.start, b.start + 1, b.end - 1, b.end} : b \in BandSet }

CallBookedDate(t, bks) ==
    /\ call.op = "none"
    /\ call' = [op |-> "isBookedDate", dateStr |-> t, endStr |-> t,
                bks |-> bks, result |-> isBookedDate(t, bks)]
    /\ UNCHANGED <<prices, now, pc, userText, interpretation, bookings, response>>

CallPrice(dateStr) ==
    /\ call.op = "none"
    /\ call' = [op |-> "getPriceForDate", dateStr |-> dateStr, endStr |-> dateStr,
                bks |-> <<>>, result |-> getPriceForDate(dateStr)]
    /\ UNCHANGED <<prices, now, pc, userText, interpretation, bookings, response>>

NextCalc ==
    \/ \E d \in SnapDays : CallSnap(d)
    \/ \E s \in Saturdays, b \in BookingLists : CallWeekInfo(s, b)
    \/ \E s \in RangeDays, e \in RangeDays, b \in BookingLists : CallBookedRange(s, e, b)
    \/ \E t \in ProbeTimes, b \in BookingLists : CallBookedDate(t, b)
    \/ \E d \in PriceDays : CallPrice(d)

SpecCalc == InitCalc /\ [][NextCalc]_vars

(***************************************************************************)
(* C17: for every date d, snapToSaturday is idempotent,                    *)
(* snap(snap(d)) = snap(d), and snap(d) is a Saturday.                     *)
(***************************************************************************)
C17_SnapIdempotentSaturday ==
    call.op = "snapToSaturday" =>
        /\ snapToSaturday(call.result) = call.result
        /\ getDay(NewDate(call.result)) = Saturday

\* A date that is no Saturday was moved.
C17_Witness ==
    /\ call.op = "snapToSaturday"
    /\ getDay(NewDate(call.dateStr)) # Saturday
    /\ call.result # call.dateStr

(***************************************************************************)
(* C18: for every date d, snapToSaturday(d) is the latest Saturday at or   *)
(* before d: 0 <= d - snap(d) <= 6 days, so d belongs to exactly one       *)
(* Sat-Sat week [snap(d), snap(d) + 7), and a Saturday maps to itself.     *)
(***************************************************************************)
C18_SnapLatestSaturdayBefore ==
    call.op = "snapToSaturday" =>
        LET d == call.dateStr
            s == call.result
        IN  /\ 0 <= d - s /\ d - s <= 6
            /\ \A k \in (d - 13)..(d + 13) :
                   (getDay(NewDate(k)) = Saturday /\ k <= d /\ d < k + 7) <=> (k = s)
            /\ getDay(NewDate(d)) = Saturday => s = d

\* A Friday goes back six days.
C18_Witness ==
    /\ call.op = "snapToSaturday"
    /\ call.dateStr - call.result = 6

(***************************************************************************)
(* C19: for every Saturday S, getWeekInfo(S) has start = S, end = S + 7    *)
(* days, booked = true iff some day in [S, S + 7) is booked, and price =   *)
(* the price lookup on S alone: the price of the first band holding S,     *)
(* null when no band holds S.                                              *)
(***************************************************************************)
C19_WeekInfoRecord ==
    call.op = "getWeekInfo" =>
        LET S    == call.dateStr
            w    == call.result
            held == { i \in 1..Len(prices) : prices[i].start <= S /\ S < prices[i].end }
        IN  /\ DOMAIN w = {"start", "end", "booked", "price"}
            /\ w.start = S
            /\ w.end = S + 7
            /\ w.booked <=> \E d \in S..(S + 6) : isBookedDate(NewDate(d), call.bks)
            /\ w.price = getPriceForDate(S)
            /\ (w.price = Null) <=> (held = {})
            /\ held # {} =>
                   w.price = Some(prices[CHOOSE i \in held : \A j \in held : i <= j].price)

\* A priced week whose Saturday is free and whose later days are booked.
C19_Witness ==
    /\ call.op = "getWeekInfo"
    /\ call.result.booked
    /\ ~isBookedDate(NewDate(call.dateStr), call.bks)
    /\ call.result.price # Null

(***************************************************************************)
(* C20: isBookedRange(s, e, I) is true iff some calendar day of the        *)
(* half-open range [s, e) is reported booked by isBookedDate; it is false  *)
(* for an empty range (s >= e); and it is monotonic: a range that contains *)
(* a booked range is booked.                                               *)
(***************************************************************************)
C20_BookedRangeExistsDay ==
    call.op = "isBookedRange" =>
        LET s == call.dateStr
            e == call.endStr
        IN  /\ call.result <=> \E d \in s..(e - 1) : isBookedDate(NewDate(d), call.bks)
            /\ s >= e => ~call.result
            /\ \A s2 \in RangeDays, e2 \in RangeDays :
                   (s2 <= s /\ e <= e2 /\ call.result) => isBookedRange(s2, e2, call.bks)

\* A range whose first day is free and that holds a booked day.
C20_Witness ==
    /\ call.op = "isBookedRange"
    /\ call.result
    /\ ~isBookedDate(NewDate(call.dateStr), call.bks)

(***************************************************************************)
(* C21: isBookedDate(d, I) is true iff some interval of I has              *)
(* start <= d < end.  Hence a booking that ends on Saturday S and a        *)
(* booking that starts on S + 7 do not make the week [S, S + 7) booked.    *)
(***************************************************************************)
C21_HalfOpenBookings ==
    /\ call.op = "isBookedDate" =>
           (call.result <=>
               \E b \in { call.bks[i] : i \in 1..Len(call.bks) } :
                   b.start <= call.dateStr /\ call.dateStr < b.end)
    /\ call.op = "getWeekInfo" =>
           ((\A i \in 1..Len(call.bks) :
                 \/ call.bks[i].end <= NewDate(call.dateStr)
                 \/ call.bks[i].start >= NewDate(call.dateStr + 7))
               => ~call.result.booked)

\* The week that starts on the day a booking ends is reported free.
C21_Witness ==
    /\ call.op = "getWeekInfo"
    /\ \E i \in 1..Len(call.bks) : call.bks[i].end = NewDate(call.dateStr)
    /\ ~call.result.booked

(***************************************************************************)
(* C22: getPriceForDate(d) returns the price of the first band, in table   *)
(* order, with band.start <= d < band.end, and null iff no band holds d.   *)
(***************************************************************************)
C22_FirstBandWins ==
    call.op = "getPriceForDate" =>
        LET d    == call.dateStr
            held == { i \in 1..Len(prices) : prices[i].start <= d /\ d < prices[i].end }
        IN  /\ (call.result = Null) <=> (held = {})
            /\ held # {} =>
                   call.result =
                       Some(prices[CHOOSE i \in held : \A j \in held : i <= j].price)

\* Two bands of different prices hold the date and the first one is returned.
C22_Witness ==
    /\ call.op = "getPriceForDate"
    /\ Len(prices) = 2
    /\ prices[1].start <= call.dateStr /\ call.dateStr < prices[1].end
    /\ prices[2].start <= call.dateStr /\ call.dateStr < prices[2].end
    /\ prices[1].price # prices[2].price
    /\ call.result = Some(prices[1].price)

\* The first month (0-based) of a meteorological season.
SeasonStartMonth(season) ==
    CASE season = "spring" -> 2
      [] season = "summer" -> 5
      [] season \in {"autumn", "fall"} -> 8
      [] season = "winter" -> 11

(***************************************************************************)
(* C23 as claimed: a season query without a year resolves to the next      *)
(* occurrence of the season on or after today, so the window ends after    *)
(* today; a 4-digit year in the text is the year of the window whatever    *)
(* the clock and the general parser say.                                   *)
(***************************************************************************)
C23_SeasonWindowNotPast ==
    (Interpreted /\ call.query.season # "none") =>
        /\ call.result.kind = "vagueRange"
        /\ call.query.year = Null => call.result.end > iso(now)
        /\ call.query.year # Null =>
               /\ call.result.start =
                      iso(NewDateYMD(call.query.year[1], SeasonStartMonth(call.query.season), 1))
               /\ call.result.end =
                      iso(NewDateYMD(call.query.year[1], SeasonStartMonth(call.query.season) + 3, 1))

(***************************************************************************)
(* "Anything in <month> 2026?" asked of a price table whose one band       *)
(* covers exactly one calendar month.                                      *)
(***************************************************************************)
MonthYear == 2026

\* May to September, as 0-based month indices.
MonthIndices == 4..8

MonthPrice == 1200

MonthBand(m) ==
    [start |-> iso(NewDateYMD(MonthYear, m, 1)),
     end   |-> iso(NewDateYMD(MonthYear, m + 1, 1)),
     price |-> MonthPrice]

\* What chrono reads in the text: the 1st or the 15th of the month, at a time of day.
MonthTexts ==
    { [Blank("text") EXCEPT !.monthOnly = TRUE,
                            !.chrono = Some([start |-> NewDateYMD(MonthYear, m, day) + 1,
                                             end |-> Null])] :
        m \in MonthIndices, day \in {1, 15} }

InitMonth ==
    /\ prices \in { <<MonthBand(m)>> : m \in MonthIndices }
    /\ now = NewDate(S0)
    /\ call = NoCall
    /\ pc = [r \in Requests |-> IF r = 1 THEN "idle" ELSE "off"]
    /\ userText = [r \in Requests |-> Null]
    /\ interpretation = [r \in Requests |-> Null]
    /\ bookings = [r \in Requests |-> Null]
    /\ response = [r \in Requests |-> Null]

NextMonth ==
    \E r \in Requests :
        \/ \E q \in MonthTexts : Receive(r, [query |-> q, date |-> Blank("absent")])
        \/ \E bks \in BookingLists : FetchOk(r, bks)
        \/ FetchFail(r)

SpecMonth == InitMonth /\ [][NextMonth]_vars

\* Request r asked about a month, the calendar is empty and the one price band
\* covers exactly that month.
MonthCase(r) ==
    /\ VagueAnswered(r)
    /\ interpretation[r][1].label = "month"
    /\ bookings[r] = Some(<<>>)
    /\ Len(prices) = 1
    /\ prices[1].start = interpretation[r][1].start
    /\ prices[1].end = interpretation[r][1].end

\* The weeks listed are those that start on the days of Sats, in ascending order,
\* each seven days long and at the band's price.
ListsExactly(weeks, Sats) ==
    /\ { weeks[i].start : i \in 1..Len(weeks) } = Sats
    /\ Len(weeks) = Cardinality(Sats)
    /\ \A i \in 1..Len(weeks) :
           /\ weeks[i].end = weeks[i].start + 7
           /\ weeks[i].price = Some(prices[1].price)
           /\ ~weeks[i].booked
           /\ i > 1 => weeks[i - 1].start < weeks[i].start

(***************************************************************************)
(* C24 as claimed: for a vague-month query with no bookings and a band     *)
(* covering exactly the month, the weeks returned are exactly the          *)
(* Saturday-starting weeks fully inside the window, each at the band's     *)
(* price; none starts before the window or ends after it.                  *)
(***************************************************************************)
C24_WeeksFullyInsideMonth ==
    \A r \in Requests :
        MonthCase(r) =>
            LET ws == interpretation[r][1].start
                we == interpretation[r][1].end
            IN  /\ ListsExactly(response[r][1].availableWeeks,
                                { d \in ws..(we - 7) : getDay(NewDate(d)) = Saturday })
                /\ \A i \in 1..Len(response[r][1].availableWeeks) :
                       /\ response[r][1].availableWeeks[i].start >= ws
                       /\ response[r][1].availableWeeks[i].end <= we

(***************************************************************************)
(* C24 amended: the weeks returned are exactly the weeks that START on a   *)
(* Saturday of the window, each at the band's price; none starts before    *)
(* the window, and the last one may end up to six days after it.           *)
(***************************************************************************)
C24_WeeksStartingInsideMonth ==
    \A r \in Requests :
        MonthCase(r) =>
            LET ws == interpretation[r][1].start
                we == interpretation[r][1].end
            IN  /\ ListsExactly(response[r][1].availableWeeks,
                                { d \in ws..(we - 1) : getDay(NewDate(d)) = Saturday })
                /\ \A i \in 1..Len(response[r][1].availableWeeks) :
                       /\ response[r][1].availableWeeks[i].start >= ws
                       /\ response[r][1].availableWeeks[i].start < we
                       /\ response[r][1].availableWeeks[i].end <= we + 6

\* A month whose last Saturday week runs into the next month is listed with it.
C24_Witness ==
    \E r \in Requests :
        /\ MonthCase(r)
        /\ Len(response[r][1].availableWeeks) >= 4
        /\ response[r][1].availableWeeks[Len(response[r][1].availableWeeks)].end
               > interpretation[r][1].end

\* The day a weekend phrase counts from: the parsed date for "weekend of <date>",
\* today + 7 days for "next weekend", today otherwise.
WeekendBase(q) ==
    IF q.weekendOf /\ q.chrono # Null THEN iso(q.chrono[1].start)
    ELSE IF q.nextWeekend THEN iso(now) + 7
    ELSE iso(now)

\* The result is the single date of the first Saturday from the base day on.
WeekendResult(q, result) ==
    /\ result.kind = "single"
    /\ getDay(NewDate(result.date)) = Saturday
    /\ WeekendBase(q) <= result.date
    /\ result.date <= WeekendBase(q) + 6
    /\ snapToSaturday(result.date) = result.date
    /\ getDay(NewDate(WeekendBase(q))) = Saturday => result.date = WeekendBase(q)

(***************************************************************************)
(* C25 as claimed: a weekend phrase ALWAYS yields Single{date}, date being *)
(* the Saturday with base <= date <= base + 6 days.                        *)
(***************************************************************************)
C25_WeekendAlwaysSingle ==
    (Interpreted /\ call.query.weekend) => WeekendResult(call.query, call.result)

(***************************************************************************)
(* C25 amended: a weekend phrase in a text with no season word yields      *)
(* Single{date}, date being the Saturday with base <= date <= base + 6     *)
(* days (base: today, today + 7 days for "next weekend", the parsed date   *)
(* for "weekend of <date>"); snap(date) = date and a Saturday base         *)
(* resolves to itself.  With a season word the text is a season query.     *)
(***************************************************************************)
C25_WeekendSingleSaturday ==
    /\ (Interpreted /\ call.query.weekend /\ call.query.season = "none") =>
           WeekendResult(call.query, call.result)
    /\ (Interpreted /\ call.query.weekend /\ call.query.season # "none") =>
           call.result.kind = "vagueRange"

\* "Next weekend" asked on a Wednesday: the Saturday ten days later.
C25_Witness ==
    /\ Interpreted
    /\ call.query.nextWeekend /\ ~call.query.weekendOf
    /\ call.query.season = "none"
    /\ getDay(now) = 3
    /\ call.result.date = iso(now) + 10

(***************************************************************************)
(* The handler under fair scheduling: the event loop runs the handler of a *)
(* request that arrived, and runs its continuation if and when the promise *)
(* of loadBookings settles.                                                *)
(***************************************************************************)
\* One text of each kind (invalid, single, range, season window) and an empty body.
LiveBodies ==
    { b \in ConcBodies : b.query.season = "summer" => b.query.chrono = Null }

\* The calendar feed: empty, or the block from S0 to S0 + 7.
LiveBookingLists == { <<>>, <<[start |-> NewDate(S0), end |-> NewDate(S0 + 7)]>> }

NextLive ==
    \E r \in Requests :
        \/ \E body \in LiveBodies : Receive(r, body)
        \/ \E bks \in LiveBookingLists : FetchOk(r, bks)
        \/ FetchFail(r)

\* The event loop runs the handler of a request that arrived.  Nothing makes the
\* promise of loadBookings settle: ical.async.fromURL is awaited with no timeout
\* (index.js:72, 357), so a request may stay at the await for ever.
Fairness ==
    \A r \in Requests :
        WF_vars(\E body \in LiveBodies : Receive(r, body))

SpecLive == InitConc /\ [][NextLive]_vars /\ Fairness

\* What holds of request r in every state.
RequestShape(r) ==
    /\ pc[r] \in {"idle", "fetching", "done"}
    /\ (response[r] # Null) <=> (pc[r] = "done")
    /\ response[r] # Null => response[r][1].status \in {400, 200, 500}
    /\ (pc[r] = "fetching" \/ bookings[r] # Null) =>
           /\ interpretation[r] # Null
           /\ interpretation[r][1].kind \in {"single", "range", "vagueRange"}
    /\ pc[r] = "fetching" => bookings[r] = Null
    /\ (response[r] # Null /\ response[r][1].status = 200) =>
           /\ response[r][1].mode = interpretation[r][1].kind
           /\ response[r][1].mode \in {"single", "range", "vagueRange", "invalid"}
           /\ response[r][1].mode # "invalid" => bookings[r] # Null

\* What holds of request r in every step: an answer is final, the fetch is entered
\* from the interpretation only and left for good.
RequestStep(r) ==
    /\ response[r] # Null => response'[r] = response[r]
    /\ bookings[r] # Null => bookings'[r] = bookings[r]
    /\ (pc'[r] = "fetching" /\ pc[r] # "fetching") => pc[r] = "idle"
    /\ pc[r] = "done" => pc'[r] = "done"

(***************************************************************************)
(* C26 as claimed: every /check request terminates with exactly one        *)
(* response (400, 200 or 500), never two; the calendar is fetched at most  *)
(* once per request, only after the text was interpreted as single, range  *)
(* or vagueRange and before any week is resolved; on a 200 response the    *)
(* mode is the interpreted kind, one of single, range, vagueRange,         *)
(* invalid.  The first conjuncts hold; termination fails for a request     *)
(* whose fetch never settles.                                              *)
(***************************************************************************)
C26_OneResponsePerRequest ==
    /\ [](\A r \in Requests : RequestShape(r))
    /\ [][\A r \in Requests : RequestStep(r)]_vars
    /\ \A r \in Requests : (pc[r] = "idle") ~> (pc[r] = "done" /\ response[r] # Null)


\* The range-mode response says that the requested range includes booked dates.
SaysRangeBooked(r) ==
    response[r][1].message.text \in
        { "That range includes booked dates. The next available",
          "That range includes booked dates and I couldn't find" }

(***************************************************************************)
(* C27 as claimed: in range mode the response says the range includes      *)
(* booked dates iff at least one day of the requested range [start, end)   *)
(* is booked.                                                              *)
(***************************************************************************)
C27_RangeBookedIffDayBooked ==
    \A r \in Requests :
        RangeAnswered(r) =>
            (SaysRangeBooked(r) <=>
                \E d \in (interpretation[r][1].start)..(interpretation[r][1].end - 1) :
                    isBookedDate(NewDate(d), bookings[r][1]))

\* The two searches from rangeStart, one bounded by the lookahead and one by rangeEnd,
\* name the same first week wherever both reach.
SearchesAgree(rangeStart, rangeEnd, bks) ==
    LET weeks == findAvailableWeeksBetween(rangeStart, rangeEnd, bks)
        nxt   == findNextAvailableWeek(rangeStart, bks, DefaultLookahead)
    IN  /\ (Len(weeks) > 0
             /\ weeks[1].start < snapToSaturday(rangeStart) + 7 * DefaultLookahead)
               => nxt = Some(weeks[1])
        /\ (nxt # Null /\ nxt[1].start < rangeEnd)
               => (Len(weeks) > 0 /\ weeks[1] = nxt[1])

(***************************************************************************)
(* C28: the two searches agree.  If findAvailableWeeksBetween(rangeStart,  *)
(* rangeEnd) is non-empty and its first week starts less than 8 weeks      *)
(* after snap(rangeStart), that week is findNextAvailableWeek(rangeStart); *)
(* if findNextAvailableWeek(rangeStart) returns a week that starts before  *)
(* rangeEnd, it is the first week of findAvailableWeeksBetween.            *)
(***************************************************************************)
C28_SearchesAgree ==
    /\ call.op = "findAvailableWeeksBetween" =>
           /\ SearchesAgree(call.dateStr, call.endStr, call.bks)
           /\ (Len(call.result) > 0
                /\ call.result[1].start < snapToSaturday(call.dateStr) + 7 * DefaultLookahead)
                  => findNextAvailableWeek(call.dateStr, call.bks, DefaultLookahead)
                         = Some(call.result[1])
    /\ call.op = "findNextAvailableWeek" =>
           \A e \in EndDays :
               /\ SearchesAgree(call.dateStr, e, call.bks)
               /\ (call.result # Null /\ call.result[1].start < e)
                      => findAvailableWeeksBetween(call.dateStr, e, call.bks)[1] = call.result[1]

\* The week of rangeStart is booked and both searches name the same later week.
C28_Witness ==
    /\ call.op = "findAvailableWeeksBetween"
    /\ Len(call.result) > 0
    /\ call.result[1].start > snapToSaturday(call.dateStr)
    /\ findNextAvailableWeek(call.dateStr, call.bks, DefaultLookahead) = Some(call.result[1])

\* The first week in the range lies past the lookahead: only one search finds it.
BeyondLookahead ==
    /\ call.op = "findAvailableWeeksBetween"
    /\ Len(call.result) > 0
    /\ call.result[1].start >= snapToSaturday(call.dateStr) + 7 * DefaultLookahead
    /\ findNextAvailableWeek(call.dateStr, call.bks, DefaultLookahead) = Null

====
